---- MODULE Spec2Model ----
(***************************************************************************)
(* Model of the finance tracker's transaction list screen                  *)
(* (TransactionsScreen.js, src/unnamed/part_000), dashboard                *)
(* (DashboardScreen.js), auth context (AuthContext.js) with the register   *)
(* screen (RegisterScreen.js), and the expense and income forms            *)
(* (ExpensesScreen.js, IncomesScreen.js).                                  *)
(*                                                                         *)
(* Conventions                                                             *)
(*  - a JS string is a sequence of one-character strings; null/undefined   *)
(*    is the value NULL;                                                   *)
(*  - a stored date "YYYY-MM-DD" is a record [y, m, d];                    *)
(*  - a JS Date is its instant in MINUTES since 1970-01-01T00:00Z (the     *)
(*    millisecond part is dropped: 32-bit integers cannot hold epoch       *)
(*    milliseconds, and no bound of the model is finer than a minute);     *)
(*  - an amount is an integer number of cents;                             *)
(*  - timezone is the device's offset, minutes EAST of UTC                 *)
(*    (local wall time = UTC + timezone).                                  *)
(***************************************************************************)
EXTENDS Integers, Sequences, FiniteSets, TLC

VARIABLES
    store,                \* rows of the remote "transactions" table of the user
    timezone,             \* device timezone offset (minutes east of UTC)
    transactions,         \* TransactionsScreen: loaded transactions
    filteredTransactions, \* TransactionsScreen: result of the filters
    filterType,           \* 'all' | 'income' | 'expense'
    filterCategory,       \* text typed in the category filter
    startDate,            \* Date (instant)
    endDate,              \* Date (instant)
    searchText,           \* free search text
    balance,              \* DashboardScreen: income - expenses
    chartData,            \* DashboardScreen: monthly buckets
    highlights,           \* DashboardScreen: highestExpense, mostUsedCategory
    fetched,              \* DashboardScreen: the rows of the last successful fetch
                          \* (the const `transactions` of loadDashboardData)
    lastAlert,            \* text of the last Alert.alert shown ("" = none)
    clock,                \* minutes elapsed on the wall clock
    accounts,             \* auth service: created_at of each account, by user id
    session,              \* auth service: user id of the session (0 = none)
    authEvent,            \* auth state change not yet delivered to the listener
    user,                 \* AuthContext: user (0 = null)
    loading,              \* AuthContext: loading
    categories,           \* rows of the remote "categories" table
    seedings,             \* record of every createDefaultCategories call so far
    lastRegister,         \* RegisterScreen: what the last handleRegister did
    formLoading,          \* ExpensesScreen / IncomesScreen: loading
    formAlert,            \* text of the last Alert.alert of the form ("" = none)
    pendingInsert,        \* the insert into "transactions" awaiting its answer
    inFlight,             \* TransactionsScreen: its store calls awaiting their
                          \* answer, in the order they were issued
    confirmDialog,        \* TransactionsScreen: id the open confirmation dialog
                          \* is about (0 = no dialog)
    refreshing,           \* TransactionsScreen: refreshing
    lastAnswer,           \* TransactionsScreen: the last answer to one of its
                          \* calls and what the screen did with it
    fetchFailed,          \* some fetch of the TransactionsScreen got an error
    categoryDialog,       \* CategoriesScreen: id of the category the open
                          \* confirmation dialog is about (0 = no dialog)
    categoryList          \* CategoriesScreen: categories

vars == <<store, timezone, transactions, filteredTransactions, filterType,
          filterCategory, startDate, endDate, searchText, balance, chartData,
          highlights, fetched, lastAlert, clock, accounts, session, authEvent,
          user, loading, categories, seedings, lastRegister, formLoading,
          formAlert, pendingInsert, inFlight, confirmDialog, refreshing,
          lastAnswer, fetchFailed, categoryDialog, categoryList>>

listVars == <<transactions, filteredTransactions, filterType, filterCategory,
              startDate, endDate, searchText>>

dashVars == <<balance, chartData, highlights, fetched, lastAlert>>

authVars == <<clock, accounts, session, authEvent, user, loading, categories,
              seedings, lastRegister>>

formVars == <<formLoading, formAlert, pendingInsert>>

callVars == <<inFlight, confirmDialog, refreshing, lastAnswer, fetchFailed>>

categoryVars == <<categoryDialog, categoryList>>

-----------------------------------------------------------------------------
(* Bounds of the model *)

\* largest number of rows the store holds
MaxRows == 2

\* largest number of rows the store holds in the runs of the highlights
MaxHighlightRows == 3

\* largest number of accounts the auth service holds
MaxAccounts == 1

\* largest number of createDefaultCategories calls in a run
MaxSeedings == 2

\* last minute of the wall clock
MaxClock == 5

\* largest number of calls of the list screen awaiting their answer
MaxInFlight == 2

\* largest number of rows of the categories table in the runs of the
\* categories screen
MaxCategories == 2

\* an account younger than this many minutes counts as new
NewAccountMinutes == 5

-----------------------------------------------------------------------------
(* JavaScript values *)

\* null / undefined (a one-element sequence no string of the model equals)
NULL == <<"null">>

\* the empty string ''
EmptyStr == <<>>

\* (v || ''): null, undefined and '' all give ''
OrEmpty(v) == IF v = NULL \/ v = EmptyStr THEN EmptyStr ELSE v

\* a JS value used as a condition: '' and null are falsy
Truthy(v) == v # NULL /\ v # EmptyStr

UpperToLower == [c \in {"A", "B", "C"} |->
                    CASE c = "A" -> "a" [] c = "B" -> "b" [] c = "C" -> "c"]

\* String.prototype.toLowerCase
ToLowerCase(s) ==
    [i \in 1..Len(s) |->
        IF s[i] \in DOMAIN UpperToLower THEN UpperToLower[s[i]] ELSE s[i]]

\* String.prototype.includes
Includes(s, sub) ==
    \E i \in 0..(Len(s) - Len(sub)) : SubSeq(s, i + 1, i + Len(sub)) = sub

-----------------------------------------------------------------------------
(* JavaScript Date *)

MinutesPerDay == 24 * 60

\* days from 1970-01-01 to the civil date y-m-d (proleptic Gregorian)
DaysFromCivil(y, m, d) ==
    LET yy  == IF m <= 2 THEN y - 1 ELSE y
        era == yy \div 400
        yoe == yy - era * 400
        mp  == IF m > 2 THEN m - 3 ELSE m + 9
        doy == (153 * mp + 2) \div 5 + d - 1
        doe == yoe * 365 + yoe \div 4 - yoe \div 100 + doy
    IN  era * 146097 + doe - 719468

\* the civil date of day number z (inverse of DaysFromCivil)
CivilFromDays(z) ==
    LET zz  == z + 719468
        era == zz \div 146097
        doe == zz - era * 146097
        yoe == (doe - doe \div 1460 + doe \div 36524 - doe \div 146096) \div 365
        doy == doe - (365 * yoe + yoe \div 4 - yoe \div 100)
        mp  == (5 * doy + 2) \div 153
        d   == doy - (153 * mp + 2) \div 5 + 1
        m   == IF mp < 10 THEN mp + 3 ELSE mp - 9
        y   == yoe + era * 400 + (IF m <= 2 THEN 1 ELSE 0)
    IN  [y |-> y, m |-> m, d |-> d]

\* new Date("YYYY-MM-DD"): a date-only ISO string is parsed as UTC midnight
NewDateFromString(s) == DaysFromCivil(s.y, s.m, s.d) * MinutesPerDay

\* the local calendar day of an instant (what getFullYear/getMonth/getDate and
\* toLocaleDateString read)
LocalCivil(t) == CivilFromDays((t + timezone) \div MinutesPerDay)

\* Date.prototype.getFullYear
GetFullYear(t) == LocalCivil(t).y

\* Date.prototype.getMonth (0-based)
GetMonth(t) == LocalCivil(t).m - 1

\* new Date(year, monthIndex, day): midnight of that day in LOCAL time
NewDateLocal(year, monthIndex, day) ==
    DaysFromCivil(year, monthIndex + 1, day) * MinutesPerDay - timezone

\* a Date with local calendar day c and local time of day tod (minutes)
LocalInstant(c, tod) == DaysFromCivil(c.y, c.m, c.d) * MinutesPerDay + tod - timezone

-----------------------------------------------------------------------------
(* The remote store *)

Range(s) == {s[i] : i \in 1..Len(s)}

\* ORDER BY date: dates compare as calendar dates
DateKey(d) == DaysFromCivil(d.y, d.m, d.d)

RECURSIVE Orderings(_)
\* every sequence that lists the elements of the set S once each
Orderings(S) ==
    IF S = {} THEN {<<>>}
    ELSE UNION {{<<x>> \o rest : rest \in Orderings(S \ {x})} : x \in S}

\* .from('transactions').select('*').eq('user_id', ...).order('date',
\* {ascending: false}): the rows, most recent date first; the order of rows of
\* equal date is the database's choice
FetchResults(rows) ==
    {s \in Orderings(Range(rows)) :
        \A i, j \in 1..Len(s) : i < j => DateKey(s[i].date) >= DateKey(s[j].date)}

\* no call of the list screen was answered yet
NoAnswer == [ok |-> TRUE, alert |-> "none"]

-----------------------------------------------------------------------------
(* TransactionsScreen: filterTransactions *)

\* t => t.type === filterType
TypePredicate(t, ft) == t.type = ft

\* variant: the typed text is not lower-cased
CategoryPredicateCaseSensitive(t, fc) ==
    Includes(ToLowerCase(OrEmpty(t.category)), fc)

\* t => (t.category || '').toLowerCase().includes(filterCategory.toLowerCase())
CategoryPredicate(t, fc) ==
    Includes(ToLowerCase(OrEmpty(t.category)), ToLowerCase(fc))

\* t => { const transactionDate = new Date(t.date);
\*        return transactionDate >= startDate && transactionDate <= endDate; }
DatePredicate(t, sd, ed) ==
    LET transactionDate == NewDateFromString(t.date)
    IN  transactionDate >= sd /\ transactionDate <= ed

\* variant: && in place of ||
SearchPredicateBoth(t, q) ==
    /\ Includes(ToLowerCase(OrEmpty(t.description)), q)
    /\ Includes(ToLowerCase(OrEmpty(t.category)), q)

\* t => (t.description || '').toLowerCase().includes(q) ||
\*      (t.category || '').toLowerCase().includes(q)
SearchPredicate(t, q) ==
    \/ Includes(ToLowerCase(OrEmpty(t.description)), q)
    \/ Includes(ToLowerCase(OrEmpty(t.category)), q)

RECURSIVE SpliceFrom(_, _, _)
\* for (i = from; i < list.length; i++) if (list[i].type !== ft) list.splice(i, 1)
SpliceFrom(list, from, ft) ==
    IF from > Len(list) THEN list
    ELSE IF list[from].type = ft THEN SpliceFrom(list, from + 1, ft)
    ELSE SpliceFrom(SubSeq(list, 1, from - 1) \o SubSeq(list, from + 1, Len(list)),
                    from + 1, ft)

\* variant: removes the other kind with splice while iterating forward
ByTypeSplice(filtered, ft) ==
    IF ft # "all" THEN SpliceFrom(filtered, 1, ft) ELSE filtered

\* step 1: if (filterType !== 'all') filtered = filtered.filter(...)
ByType(filtered, ft) ==
    IF ft # "all"
    THEN SelectSeq(filtered, LAMBDA t : TypePredicate(t, ft))
    ELSE filtered

\* step 2: if (filterCategory) filtered = filtered.filter(...)
ByCategory(filtered, fc) ==
    IF Truthy(fc)
    THEN SelectSeq(filtered, LAMBDA t : CategoryPredicate(t, fc))
    ELSE filtered

\* step 3: filtered = filtered.filter(...) (always applied)
ByDate(filtered, sd, ed) ==
    SelectSeq(filtered, LAMBDA t : DatePredicate(t, sd, ed))

\* variant: the description matches followed by the category matches
BySearchConcat(filtered, st) ==
    IF Truthy(st)
    THEN LET q == ToLowerCase(st)
         IN  SelectSeq(filtered,
                       LAMBDA t : Includes(ToLowerCase(OrEmpty(t.description)), q))
             \o SelectSeq(filtered,
                          LAMBDA t : Includes(ToLowerCase(OrEmpty(t.category)), q))
    ELSE filtered

\* step 4: if (searchText) { const q = searchText.toLowerCase(); ... }
BySearch(filtered, st) ==
    IF Truthy(st)
    THEN LET q == ToLowerCase(st)
         IN  SelectSeq(filtered, LAMBDA t : SearchPredicate(t, q))
    ELSE filtered

\* variant: the category step filters `transactions`, not `filtered`
filterTransactionsRestart(txs, ft, fc, sd, ed, st) ==
    BySearch(ByDate(IF Truthy(fc) THEN ByCategory(txs, fc) ELSE ByType(txs, ft),
                    sd, ed), st)

\* the value filterTransactions passes to setFilteredTransactions, as a
\* function of the component state it reads
filterTransactions(txs, ft, fc, sd, ed, st) ==
    BySearch(ByDate(ByCategory(ByType(txs, ft), fc), sd, ed), st)

-----------------------------------------------------------------------------
(* TransactionsScreen: operations.  Every state change is followed by the   *)
(* effect of lines 43-46, which re-runs filterTransactions.                 *)

\* loadTransactions: the fetch and its answer
loadTransactions ==
    /\ \E ok \in BOOLEAN :
          IF ok
          THEN \E data \in FetchResults(store) :
                  /\ transactions' = data
                  /\ filteredTransactions' =
                        filterTransactions(data, filterType, filterCategory,
                                           startDate, endDate, searchText)
          ELSE UNCHANGED <<transactions, filteredTransactions>>
    /\ UNCHANGED <<store, timezone, filterType, filterCategory, startDate,
                   endDate, searchText>>
    /\ UNCHANGED <<dashVars, authVars, formVars, callVars, categoryVars>>

\* the three type buttons: setFilterType('all' | 'income' | 'expense')
setFilterType(ft) ==
    /\ filterType' = ft
    /\ filteredTransactions' =
          filterTransactions(transactions, ft, filterCategory, startDate,
                             endDate, searchText)
    /\ UNCHANGED <<store, timezone, transactions, filterCategory, startDate,
                   endDate, searchText>>
    /\ UNCHANGED <<dashVars, authVars, formVars, callVars, categoryVars>>

\* setFilterCategory, the setter of the filterCategory state (line 26).  No
\* control of the screen calls it: the category text is an input of
\* filterTransactions that only a caller of the setter can change.
setFilterCategory(fc) ==
    /\ filterCategory' = fc
    /\ filteredTransactions' =
          filterTransactions(transactions, filterType, fc, startDate, endDate,
                             searchText)
    /\ UNCHANGED <<store, timezone, transactions, filterType, startDate,
                   endDate, searchText>>
    /\ UNCHANGED <<dashVars, authVars, formVars, callVars, categoryVars>>

\* start DateTimePicker onChange with a selected date
setStartDate(sd) ==
    /\ startDate' = sd
    /\ filteredTransactions' =
          filterTransactions(transactions, filterType, filterCategory, sd,
                             endDate, searchText)
    /\ UNCHANGED <<store, timezone, transactions, filterType, filterCategory,
                   endDate, searchText>>
    /\ UNCHANGED <<dashVars, authVars, formVars, callVars, categoryVars>>

\* end DateTimePicker onChange with a selected date
setEndDate(ed) ==
    /\ endDate' = ed
    /\ filteredTransactions' =
          filterTransactions(transactions, filterType, filterCategory,
                             startDate, ed, searchText)
    /\ UNCHANGED <<store, timezone, transactions, filterType, filterCategory,
                   startDate, searchText>>
    /\ UNCHANGED <<dashVars, authVars, formVars, callVars, categoryVars>>

\* search TextInput onChangeText, were searchText not a dependency of the
\* filter effect
setSearchTextNoEffect(st) ==
    /\ searchText' = st
    /\ UNCHANGED <<store, timezone, transactions, filteredTransactions, filterType,
                   filterCategory, startDate, endDate>>
    /\ UNCHANGED <<dashVars, authVars, formVars, callVars, categoryVars>>

\* search TextInput onChangeText
setSearchText(st) ==
    /\ searchText' = st
    /\ filteredTransactions' =
          filterTransactions(transactions, filterType, filterCategory,
                             startDate, endDate, st)
    /\ UNCHANGED <<store, timezone, transactions, filterType, filterCategory,
                   startDate, endDate>>
    /\ UNCHANGED <<dashVars, authVars, formVars, callVars, categoryVars>>

-----------------------------------------------------------------------------
(* TransactionsScreen: the calls to the store and their answers.  A call   *)
(* is issued, served by the store at some later moment, and answered to    *)
(* the screen at some moment after that; answers arrive in any order.      *)

\* a call awaiting its answer: a fetch (issued on mount, by a refresh or
\* after the delete of id) or the delete of id
Call(kind, by, id) ==
    [kind |-> kind, by |-> by, id |-> id, served |-> FALSE, data |-> <<>>]

\* the sequence without its i-th element
Without(seq, i) == SubSeq(seq, 1, i - 1) \o SubSeq(seq, i + 1, Len(seq))

\* the table without the rows of the id
DeleteById(rows, id) == SelectSeq(rows, LAMBDA t : t.id # id)

\* the filter effect, with the loaded transactions txs
Refiltered(txs) ==
    filterTransactions(txs, filterType, filterCategory, startDate, endDate, searchText)

\* onRefresh up to the await of loadTransactions
onRefresh ==
    /\ ~refreshing
    /\ confirmDialog = 0
    /\ Len(inFlight) < MaxInFlight
    /\ refreshing' = TRUE
    /\ inFlight' = Append(inFlight, Call("fetch", "refresh", 0))
    /\ UNCHANGED <<confirmDialog, lastAnswer, fetchFailed>>
    /\ UNCHANGED <<store, timezone>>
    /\ UNCHANGED <<listVars, dashVars, authVars, formVars, categoryVars>>

\* handleDeleteTransaction(id), by the delete button of a displayed row:
\* the confirmation dialog opens
handleDeleteTransaction(transactionId) ==
    /\ confirmDialog = 0
    /\ \E i \in 1..Len(filteredTransactions) : filteredTransactions[i].id = transactionId
    /\ confirmDialog' = transactionId
    /\ UNCHANGED <<inFlight, refreshing, lastAnswer, fetchFailed>>
    /\ UNCHANGED <<store, timezone>>
    /\ UNCHANGED <<listVars, dashVars, authVars, formVars, categoryVars>>

\* 'Cancelar' as a dialog that deletes all the same
cancelDeleteDeletes ==
    /\ confirmDialog # 0
    /\ Len(inFlight) < MaxInFlight
    /\ inFlight' = Append(inFlight, Call("delete", "confirm", confirmDialog))
    /\ confirmDialog' = 0
    /\ UNCHANGED <<refreshing, lastAnswer, fetchFailed>>
    /\ UNCHANGED <<store, timezone>>
    /\ UNCHANGED <<listVars, dashVars, authVars, formVars, categoryVars>>

\* 'Cancelar': the dialog closes
cancelDelete ==
    /\ confirmDialog # 0
    /\ confirmDialog' = 0
    /\ UNCHANGED <<inFlight, refreshing, lastAnswer, fetchFailed>>
    /\ UNCHANGED <<store, timezone>>
    /\ UNCHANGED <<listVars, dashVars, authVars, formVars, categoryVars>>

\* 'Excluir': onPress up to the await of the delete
confirmDelete ==
    /\ confirmDialog # 0
    /\ Len(inFlight) < MaxInFlight
    /\ inFlight' = Append(inFlight, Call("delete", "confirm", confirmDialog))
    /\ confirmDialog' = 0
    /\ UNCHANGED <<refreshing, lastAnswer, fetchFailed>>
    /\ UNCHANGED <<store, timezone>>
    /\ UNCHANGED <<listVars, dashVars, authVars, formVars, categoryVars>>

\* the store serves the i-th call: a fetch reads the rows, a delete removes
\* the rows of the id (none, if it is gone already)
serve(i) ==
    /\ ~inFlight[i].served
    /\ IF inFlight[i].kind = "fetch"
       THEN /\ \E data \in FetchResults(store) :
                  inFlight' = [inFlight EXCEPT ![i].served = TRUE, ![i].data = data]
            /\ UNCHANGED store
       ELSE /\ inFlight' = [inFlight EXCEPT ![i].served = TRUE]
            /\ store' = DeleteById(store, inFlight[i].id)
    /\ UNCHANGED <<confirmDialog, refreshing, lastAnswer, fetchFailed>>
    /\ UNCHANGED timezone
    /\ UNCHANGED <<listVars, dashVars, authVars, formVars, categoryVars>>

\* the answer to a fetch reaches loadTransactions, and onRefresh after it:
\* the rows the store read, or an error for a call it did not serve
fetchAnswered(i) ==
    LET call == inFlight[i]
    IN  /\ call.kind = "fetch"
        /\ inFlight' = Without(inFlight, i)
        /\ IF call.served
           THEN /\ transactions' = call.data
                /\ filteredTransactions' = Refiltered(call.data)
                /\ UNCHANGED fetchFailed
           ELSE /\ fetchFailed' = TRUE
                /\ UNCHANGED <<transactions, filteredTransactions>>
        /\ refreshing' = IF call.by = "refresh" THEN FALSE ELSE refreshing
        /\ lastAnswer' = [ok |-> call.served, alert |-> ""]
        /\ UNCHANGED <<confirmDialog, store, timezone, filterType, filterCategory,
                       startDate, endDate, searchText>>
        /\ UNCHANGED <<dashVars, authVars, formVars, categoryVars>>

\* onPress after the await, without the loadTransactions() of the else branch
deleteAnsweredNoFetch(i) ==
    LET call == inFlight[i]
    IN  /\ call.kind = "delete"
        /\ inFlight' = Without(inFlight, i)
        /\ IF call.served
           THEN /\ lastAnswer' = [ok |-> TRUE, alert |-> ""]
                /\ UNCHANGED lastAlert
           ELSE /\ lastAnswer' = [ok |-> FALSE,
                                  alert |-> "Não foi possível excluir a transação"]
                /\ lastAlert' = "Não foi possível excluir a transação"
        /\ UNCHANGED <<confirmDialog, refreshing, fetchFailed, store, timezone>>
        /\ UNCHANGED <<balance, chartData, highlights, fetched>>
        /\ UNCHANGED <<listVars, authVars, formVars, categoryVars>>

\* onPress after the await, as a handler that issues the delete again after
\* an error
deleteAnsweredRetry(i) ==
    LET call == inFlight[i]
    IN  /\ call.kind = "delete"
        /\ IF call.served
           THEN /\ inFlight' = Append(Without(inFlight, i), Call("fetch", "delete", call.id))
                /\ lastAnswer' = [ok |-> TRUE, alert |-> ""]
                /\ UNCHANGED lastAlert
           ELSE /\ inFlight' = Append(Without(inFlight, i), Call("delete", "confirm", call.id))
                /\ lastAnswer' = [ok |-> FALSE,
                                  alert |-> "Não foi possível excluir a transação"]
                /\ lastAlert' = "Não foi possível excluir a transação"
        /\ UNCHANGED <<confirmDialog, refreshing, fetchFailed, store, timezone>>
        /\ UNCHANGED <<balance, chartData, highlights, fetched>>
        /\ UNCHANGED <<listVars, authVars, formVars, categoryVars>>

\* the answer to a delete reaches onPress: loadTransactions() after a
\* delete the store served, an alert after an error
deleteAnswered(i) ==
    LET call == inFlight[i]
    IN  /\ call.kind = "delete"
        /\ IF call.served
           THEN /\ inFlight' = Append(Without(inFlight, i), Call("fetch", "delete", call.id))
                /\ lastAnswer' = [ok |-> TRUE, alert |-> ""]
                /\ UNCHANGED lastAlert
           ELSE /\ inFlight' = Without(inFlight, i)
                /\ lastAnswer' = [ok |-> FALSE,
                                  alert |-> "Não foi possível excluir a transação"]
                /\ lastAlert' = "Não foi possível excluir a transação"
        /\ UNCHANGED <<confirmDialog, refreshing, fetchFailed, store, timezone>>
        /\ UNCHANGED <<balance, chartData, highlights, fetched>>
        /\ UNCHANGED <<listVars, authVars, formVars, categoryVars>>

-----------------------------------------------------------------------------
(* DashboardScreen *)

\* transactions.filter(t => t.type === type)
OfType(txs, type) == SelectSeq(txs, LAMBDA t : t.type = type)

RECURSIVE SumAmounts(_)
\* .reduce((sum, t) => sum + t.amount, 0)
SumAmounts(txs) ==
    IF txs = <<>> THEN 0
    ELSE SumAmounts(SubSeq(txs, 1, Len(txs) - 1)) + txs[Len(txs)].amount

\* variant: the expenses are selected by the key 'expenses' of the chart
ComputeBalancePluralKey(txs) ==
    LET totalIncome   == SumAmounts(OfType(txs, "income"))
        totalExpenses == SumAmounts(OfType(txs, "expenses"))
    IN  totalIncome - totalExpenses

\* totalIncome - totalExpenses, the value passed to setBalance
ComputeBalance(txs) ==
    LET totalIncome   == SumAmounts(OfType(txs, "income"))
        totalExpenses == SumAmounts(OfType(txs, "expense"))
    IN  totalIncome - totalExpenses

\* const date = new Date(transaction.date);
\* const monthKey = `${date.getFullYear()}-${date.getMonth() + 1}`;
\* (the key "Y-M" is modelled by the pair <<Y, M>>)
MonthKey(transaction) ==
    LET date == NewDateFromString(transaction.date)
    IN  <<GetFullYear(date), GetMonth(date) + 1>>

\* variant: the month entry is set to zeros without the `if (!months[monthKey])`
AddToMonthsReset(months, transaction) ==
    LET monthKey == <<GetFullYear(NewDateFromString(transaction.date)),
                      GetMonth(NewDateFromString(transaction.date)) + 1>>
        zero     == [month |-> monthKey, income |-> 0, expenses |-> 0]
        present  == \E i \in 1..Len(months) : months[i].month = monthKey
        withKey  == IF present
                    THEN [i \in 1..Len(months) |->
                             IF months[i].month = monthKey THEN zero ELSE months[i]]
                    ELSE Append(months, zero)
    IN  [i \in 1..Len(withKey) |->
            IF withKey[i].month # monthKey THEN withKey[i]
            ELSE IF transaction.type = "income"
                 THEN [withKey[i] EXCEPT !.income = @ + transaction.amount]
                 ELSE [withKey[i] EXCEPT !.expenses = @ + transaction.amount]]

\* one pass of the forEach body over the months map (kept as the sequence of
\* its entries in insertion order, the order Object.keys lists them)
AddToMonths(months, transaction) ==
    LET monthKey == MonthKey(transaction)
        present  == \E i \in 1..Len(months) : months[i].month = monthKey
        withKey  == IF present THEN months
                    ELSE Append(months,
                                [month |-> monthKey, income |-> 0, expenses |-> 0])
    IN  [i \in 1..Len(withKey) |->
            IF withKey[i].month # monthKey THEN withKey[i]
            ELSE IF transaction.type = "income"
                 THEN [withKey[i] EXCEPT !.income = @ + transaction.amount]
                 ELSE [withKey[i] EXCEPT !.expenses = @ + transaction.amount]]

RECURSIVE processMonthlyData(_)
\* the array of { month, income, expenses } returned for the chart
processMonthlyData(txs) ==
    IF txs = <<>> THEN <<>>
    ELSE AddToMonths(processMonthlyData(SubSeq(txs, 1, Len(txs) - 1)),
                     txs[Len(txs)])

\* the value null of highestExpense
NoTransaction == [id |-> 0]

RECURSIVE HighestExpenseLast(_)
\* variant: >= in place of >, the last of the largest expenses is kept
HighestExpenseLast(expenses) ==
    IF Len(expenses) = 0 THEN NoTransaction
    ELSE IF Len(expenses) = 1 THEN expenses[1]
    ELSE LET max == HighestExpenseLast(SubSeq(expenses, 1, Len(expenses) - 1))
             t   == expenses[Len(expenses)]
         IN  IF t.amount >= max.amount THEN t ELSE max

RECURSIVE HighestExpense(_)
\* expenses.reduce((max, t) => t.amount > max.amount ? t : max, expenses[0])
HighestExpense(expenses) ==
    IF Len(expenses) = 0 THEN NoTransaction
    ELSE IF Len(expenses) = 1 THEN expenses[1]
    ELSE LET max == HighestExpense(SubSeq(expenses, 1, Len(expenses) - 1))
             t   == expenses[Len(expenses)]
         IN  IF t.amount > max.amount THEN t ELSE max

\* the property key a category value becomes in categoryCount[t.category]
CategoryKey(c) == IF c = NULL THEN <<"n", "u", "l", "l">> ELSE c

\* a property key that is a canonical array index ("0", "7", "12", ...)
IsArrayIndex(k) ==
    /\ Len(k) >= 1
    /\ \A i \in 1..Len(k) : k[i] \in {"0", "1", "2", "3", "4", "5", "6", "7", "8", "9"}
    /\ (Len(k) > 1 => k[1] # "0")

DigitValue == [c \in {"0", "1", "2", "3", "4", "5", "6", "7", "8", "9"} |->
                 CASE c = "0" -> 0 [] c = "1" -> 1 [] c = "2" -> 2 [] c = "3" -> 3
                   [] c = "4" -> 4 [] c = "5" -> 5 [] c = "6" -> 6 [] c = "7" -> 7
                   [] c = "8" -> 8 [] c = "9" -> 9]

RECURSIVE IndexValue(_)
\* the number an array-index key denotes
IndexValue(k) ==
    IF k = <<>> THEN 0
    ELSE 10 * IndexValue(SubSeq(k, 1, Len(k) - 1)) + DigitValue[k[Len(k)]]

RECURSIVE InsertedKeys(_)
\* the distinct keys of categoryCount in the order the forEach creates them
InsertedKeys(txs) ==
    IF txs = <<>> THEN <<>>
    ELSE LET prev == InsertedKeys(SubSeq(txs, 1, Len(txs) - 1))
             k    == CategoryKey(txs[Len(txs)].category)
         IN  IF k \in Range(prev) THEN prev ELSE Append(prev, k)

\* Object.keys(categoryCount): the array-index keys in ascending numeric
\* order, then the other keys in order of creation
CategoryKeys(txs) ==
    LET inserted == InsertedKeys(txs)
        indexes  == {k \in Range(inserted) : IsArrayIndex(k)}
        sorted   == CHOOSE q \in Orderings(indexes) :
                        \A i, j \in 1..Len(q) :
                            i < j => IndexValue(q[i]) < IndexValue(q[j])
    IN  sorted \o SelectSeq(inserted, LAMBDA k : ~IsArrayIndex(k))

\* categoryCount[k]
CategoryCount(txs, k) ==
    Cardinality({i \in 1..Len(txs) : CategoryKey(txs[i].category) = k})

RECURSIVE LeastUsedOf(_, _)
\* variant: < in place of >
LeastUsedOf(txs, keys) ==
    IF Len(keys) = 1 THEN keys[1]
    ELSE LET a == LeastUsedOf(txs, SubSeq(keys, 1, Len(keys) - 1))
             b == keys[Len(keys)]
         IN  IF CategoryCount(txs, a) < CategoryCount(txs, b) THEN a ELSE b

RECURSIVE MostUsedFirstOf(_, _)
\* variant: >= in place of >, the first of the most used keys is kept
MostUsedFirstOf(txs, keys) ==
    IF Len(keys) = 1 THEN keys[1]
    ELSE LET a == MostUsedFirstOf(txs, SubSeq(keys, 1, Len(keys) - 1))
             b == keys[Len(keys)]
         IN  IF CategoryCount(txs, a) >= CategoryCount(txs, b) THEN a ELSE b

RECURSIVE MostUsedOf(_, _)
\* keys.reduce((a, b) => categoryCount[a] > categoryCount[b] ? a : b)
MostUsedOf(txs, keys) ==
    IF Len(keys) = 1 THEN keys[1]
    ELSE LET a == MostUsedOf(txs, SubSeq(keys, 1, Len(keys) - 1))
             b == keys[Len(keys)]
         IN  IF CategoryCount(txs, a) > CategoryCount(txs, b) THEN a ELSE b

Nenhuma == <<"N", "e", "n", "h", "u", "m", "a">>

\* { highestExpense, mostUsedCategory }
calculateHighlights(txs) ==
    LET expenses == OfType(txs, "expense")
        keys     == CategoryKeys(txs)
    IN  [highestExpense   |-> HighestExpense(expenses),
         mostUsedCategory |-> IF Len(keys) > 0 THEN MostUsedOf(txs, keys)
                              ELSE Nenhuma]

\* loadDashboardData: the fetch, its answer and the three state updates
loadDashboardData ==
    /\ \E ok \in BOOLEAN :
          IF ok
          THEN \E txs \in FetchResults(store) :
                  /\ balance' = ComputeBalance(txs)
                  /\ chartData' = processMonthlyData(txs)
                  /\ highlights' = calculateHighlights(txs)
                  /\ fetched' = txs
                  /\ UNCHANGED lastAlert
          ELSE /\ lastAlert' = "Erro ao carregar dados do dashboard"
               /\ UNCHANGED <<balance, chartData, highlights, fetched>>
    /\ UNCHANGED <<store, timezone>>
    /\ UNCHANGED <<listVars, authVars, formVars, callVars, categoryVars>>

-----------------------------------------------------------------------------
(* AuthContext: the default categories *)

\* variant: the list without a second category of the name 'Outros'
defaultCategoriesUniqueNames ==
    <<[name |-> "Alimentação", type |-> "expense"],
      [name |-> "Transporte", type |-> "expense"],
      [name |-> "Moradia", type |-> "expense"],
      [name |-> "Saúde", type |-> "expense"],
      [name |-> "Educação", type |-> "expense"],
      [name |-> "Lazer", type |-> "expense"],
      [name |-> "Compras", type |-> "expense"],
      [name |-> "Outros", type |-> "expense"],
      [name |-> "Salário", type |-> "income"],
      [name |-> "Freelance", type |-> "income"],
      [name |-> "Investimentos", type |-> "income"],
      [name |-> "Presentes", type |-> "income"]>>

defaultCategories ==
    <<[name |-> "Alimentação", type |-> "expense"],
      [name |-> "Transporte", type |-> "expense"],
      [name |-> "Moradia", type |-> "expense"],
      [name |-> "Saúde", type |-> "expense"],
      [name |-> "Educação", type |-> "expense"],
      [name |-> "Lazer", type |-> "expense"],
      [name |-> "Compras", type |-> "expense"],
      [name |-> "Outros", type |-> "expense"],
      [name |-> "Salário", type |-> "income"],
      [name |-> "Freelance", type |-> "income"],
      [name |-> "Investimentos", type |-> "income"],
      [name |-> "Presentes", type |-> "income"],
      [name |-> "Outros", type |-> "income"]>>

\* defaultCategories.map(category => ({ user_id: userId, name, type }))
CategoryRows(userId) ==
    [i \in 1..Len(defaultCategories) |->
        [user_id |-> userId, name |-> defaultCategories[i].name,
         type |-> defaultCategories[i].type]]

\* how the store answers an insert: it accepts the rows, answers with an
\* error, or the call throws
InsertResponses == {"ok", "error", "throw"}

\* variant: the rows are added only for a user without categories
InsertCategoriesOnce(table, rows, response) ==
    IF response = "ok" /\ \A i \in 1..Len(table) : table[i].user_id # rows[1].user_id
    THEN table \o rows
    ELSE table

\* supabase.from('categories').insert(rows): the table afterwards
InsertCategories(table, rows, response) ==
    IF response = "ok" THEN table \o rows ELSE table

\* variant: a thrown failure of the insert is thrown on to the caller
createDefaultCategoriesRethrow(table, userId, response) ==
    LET rows == CategoryRows(userId)
    IN  [table    |-> InsertCategories(table, rows, response),
         inserts  |-> <<rows>>,
         console  |-> IF response = "ok" THEN "log" ELSE "error",
         threw    |-> response = "throw",
         returned |-> "undefined"]

\* createDefaultCategories(userId): the table afterwards, the insert calls
\* issued, the console method that reports the outcome, and what the caller
\* gets (nothing is thrown, nothing is returned)
createDefaultCategories(table, userId, response) ==
    LET rows == CategoryRows(userId)
    IN  [table    |-> InsertCategories(table, rows, response),
         inserts  |-> <<rows>>,
         console  |-> IF response = "ok" THEN "log" ELSE "error",
         threw    |-> FALSE,
         returned |-> "undefined"]

\* a call of createDefaultCategories by one of its three callers
Seeding(by, userId, response) ==
    LET r == createDefaultCategories(categories, userId, response)
    IN  [by |-> by, userId |-> userId, response |-> response,
         table |-> r.table, inserts |-> r.inserts, console |-> r.console,
         threw |-> r.threw, returned |-> r.returned]

\* the trace of a seeding in the state
Seeded(seeding) ==
    /\ Len(seedings) < MaxSeedings
    /\ categories' = seeding.table
    /\ seedings' = Append(seedings, [by |-> seeding.by, userId |-> seeding.userId,
                                     response |-> seeding.response,
                                     inserts |-> seeding.inserts,
                                     console |-> seeding.console,
                                     threw |-> seeding.threw,
                                     returned |-> seeding.returned])

-----------------------------------------------------------------------------
(* AuthContext and RegisterScreen: operations.  The listener of            *)
(* onAuthStateChange runs for one auth call before the next auth call.     *)

otherThanAuthVars ==
    <<store, timezone, listVars, dashVars, formVars, callVars, categoryVars>>

\* an auth state change: the event, the user of its session (0 = no session),
\* and whether the listener is at its await of createDefaultCategories
Event(event, userId) == [event |-> event, user |-> userId, awaiting |-> FALSE]

NoEvent == Event("NONE", 0)

\* variant: an account of exactly NewAccountMinutes minutes counts as new
IsNewAccountInclusive(diffMinutes) == diffMinutes <= NewAccountMinutes

\* diffMinutes < 5
IsNewAccount(diffMinutes) == diffMinutes < NewAccountMinutes

NoRegister ==
    [called |-> FALSE, auth |-> "none", response |-> "none",
     returned |-> [data |-> "none", user |-> 0, error |-> "none"],
     alert |-> "", navigated |-> "none"]

\* how the auth service answers signUp: the account is created, the answer
\* carries an error, or the call throws
AuthResponses == {"created", "error", "throw"}

\* what signUp returns, { data, error } with data.user: the answer of the
\* auth service, or the thrown error if anything in its try block threw
signUpReturn(auth, id, seedingThrew) ==
    IF auth = "created"
    THEN IF seedingThrew
         THEN [data |-> "null", user |-> 0, error |-> "thrown"]
         ELSE [data |-> "object", user |-> id, error |-> "null"]
    ELSE IF auth = "error"
         THEN [data |-> "object", user |-> 0, error |-> "AuthError"]
         ELSE [data |-> "null", user |-> 0, error |-> "thrown"]

\* what the RegisterScreen's fields may hold: a field left empty, two
\* passwords that differ, a short password, a form that passes
RegisterForms ==
    LET address == <<"a", "@", "b">>
        short   == <<"1", "2", "3", "4", "5">>
        long    == <<"1", "2", "3", "4", "5", "6">>
    IN  {[email |-> EmptyStr, password |-> long, confirmPassword |-> long],
         [email |-> address, password |-> long, confirmPassword |-> EmptyStr],
         [email |-> address, password |-> long, confirmPassword |-> short],
         [email |-> address, password |-> short, confirmPassword |-> short],
         [email |-> address, password |-> long, confirmPassword |-> long]}

\* signUp(email, password) of the context
signUp(auth, response, autoSession) ==
    /\ IF auth = "created"
       THEN LET id == Len(accounts) + 1
            IN  /\ Len(accounts) < MaxAccounts
                /\ accounts' = Append(accounts, clock)
                /\ IF autoSession
                   THEN /\ authEvent = NoEvent
                        /\ session' = id
                        /\ authEvent' = Event("SIGNED_IN", id)
                   ELSE UNCHANGED <<session, authEvent>>
                /\ Seeded(Seeding("signUp", id, response))
       ELSE UNCHANGED <<accounts, session, authEvent, categories, seedings>>
    /\ loading' = FALSE
    /\ UNCHANGED <<clock, user>>

\* RegisterScreen.handleRegister
handleRegister ==
    /\ \E form \in RegisterForms :
          LET email           == form.email
              password        == form.password
              confirmPassword == form.confirmPassword
              rejected(message) ==
                  /\ lastRegister' = [NoRegister EXCEPT !.alert = message]
                  /\ UNCHANGED <<clock, accounts, session, authEvent, user,
                                 loading, categories, seedings>>
              submitted(auth, response, autoSession) ==
                  LET id  == Len(accounts) + 1
                      ret == signUpReturn(auth, id,
                                          Seeding("signUp", id, response).threw)
                  IN  /\ signUp(auth, response, autoSession)
                      /\ lastRegister' =
                            [called |-> TRUE, auth |-> auth,
                             response |-> IF auth = "created" THEN response ELSE "none",
                             returned |-> ret,
                             alert |-> IF ret.error # "null"
                                       THEN "Não foi possível criar a conta"
                                       ELSE "Conta criada com sucesso! Faça login.",
                             navigated |-> IF ret.error # "null" THEN "none" ELSE "Login"]
          IN  IF ~Truthy(email) \/ ~Truthy(password) \/ ~Truthy(confirmPassword)
              THEN rejected("Por favor, preencha todos os campos")
              ELSE IF password # confirmPassword
              THEN rejected("As senhas não coincidem")
              ELSE IF Len(password) < 6
              THEN rejected("A senha deve ter pelo menos 6 caracteres")
              ELSE \E auth \in AuthResponses :
                      IF auth = "created"
                      THEN \E response \in InsertResponses, autoSession \in BOOLEAN :
                              submitted(auth, response, autoSession)
                      ELSE submitted(auth, "ok", FALSE)
    /\ UNCHANGED otherThanAuthVars

\* signIn(email, password) of the context
signIn ==
    /\ \E ok \in BOOLEAN :
          IF ok
          THEN \E id \in 1..Len(accounts) :
                  /\ authEvent = NoEvent
                  /\ session' = id
                  /\ authEvent' = Event("SIGNED_IN", id)
          ELSE UNCHANGED <<session, authEvent>>
    /\ loading' = FALSE
    /\ UNCHANGED <<clock, accounts, user, categories, seedings, lastRegister>>
    /\ UNCHANGED otherThanAuthVars

\* signOut() of the context
signOut ==
    /\ \E ok \in BOOLEAN :
          IF ok
          THEN /\ authEvent = NoEvent
               /\ session' = 0
               /\ authEvent' = Event("SIGNED_OUT", 0)
          ELSE UNCHANGED <<session, authEvent>>
    /\ loading' = FALSE
    /\ UNCHANGED <<clock, accounts, user, categories, seedings, lastRegister>>
    /\ UNCHANGED otherThanAuthVars

\* the auth service refreshes the token of the session: an event other than
\* SIGNED_IN that carries a session
tokenRefreshed ==
    /\ session # 0
    /\ authEvent = NoEvent
    /\ authEvent' = Event("TOKEN_REFRESHED", session)
    /\ UNCHANGED <<clock, accounts, session, user, loading, categories, seedings,
                   lastRegister>>
    /\ UNCHANGED otherThanAuthVars

\* the listener registered with onAuthStateChange, called with an event: up
\* to the await of createDefaultCategories for a new user's SIGNED_IN, to
\* its end otherwise
onAuthStateChange ==
    /\ authEvent # NoEvent
    /\ ~authEvent.awaiting
    /\ IF /\ authEvent.event = "SIGNED_IN"
          /\ authEvent.user # 0
          /\ IsNewAccount(clock - accounts[authEvent.user])
       THEN /\ Len(seedings) < MaxSeedings
            /\ authEvent' = [authEvent EXCEPT !.awaiting = TRUE]
            /\ UNCHANGED <<user, loading>>
       ELSE /\ user' = authEvent.user
            /\ loading' = FALSE
            /\ authEvent' = NoEvent
    /\ UNCHANGED <<clock, accounts, session, categories, seedings, lastRegister>>
    /\ UNCHANGED otherThanAuthVars

\* the listener after its await: createDefaultCategories has finished, then
\* setUser and setLoading(false)
onAuthStateChangeResumed ==
    /\ authEvent.awaiting
    /\ \E response \in InsertResponses :
          Seeded(Seeding("onAuthStateChange", authEvent.user, response))
    /\ user' = authEvent.user
    /\ loading' = FALSE
    /\ authEvent' = NoEvent
    /\ UNCHANGED <<clock, accounts, session, lastRegister>>
    /\ UNCHANGED otherThanAuthVars

\* the getSession() of the mount effect: it resolves once, while loading
\* still has its initial value
getSession ==
    /\ loading
    /\ user' = session
    /\ loading' = FALSE
    /\ UNCHANGED <<clock, accounts, session, authEvent, categories, seedings,
                   lastRegister>>
    /\ UNCHANGED otherThanAuthVars

\* createCategoriesForExistingUser(): nothing happens without a user
createCategoriesForExistingUser ==
    /\ user # 0
    /\ \E response \in InsertResponses :
          Seeded(Seeding("createCategoriesForExistingUser", user, response))
    /\ UNCHANGED <<clock, accounts, session, authEvent, user, loading, lastRegister>>
    /\ UNCHANGED otherThanAuthVars

\* a minute passes.  The clock is read only as the age of an account, so it
\* starts with the first account
tick ==
    /\ clock < MaxClock
    /\ accounts # <<>>
    /\ clock' = clock + 1
    /\ UNCHANGED <<accounts, session, authEvent, user, loading, categories,
                   seedings, lastRegister>>
    /\ UNCHANGED otherThanAuthVars

-----------------------------------------------------------------------------
(* Inputs *)

D(y, m, d) == [y |-> y, m |-> m, d |-> d]

\* device timezones: UTC-3 (Brasilia), UTC, UTC+2
Timezones == {-180, 0, 120}

\* the moment the list screen mounts, as local wall-clock time
Mount == <<D(2024, 1, 31), 1 * 60>>

\* one row (without id)
Row(type, amount, description, category, date) ==
    [type |-> type, amount |-> amount, description |-> description,
     category |-> category, date |-> date]

\* rows of the list-screen runs: both kinds, two dates, a description or a
\* category that holds the typed texts in another case, one of them, or neither
ListRows ==
    {Row("income", 100, <<"A", "b">>, NULL, D(2024, 1, 31)),
     Row("expense", 100, <<"c">>, <<"a", "B">>, D(2024, 1, 31)),
     Row("income", 100, <<"c">>, <<"a", "B">>, D(2024, 1, 1)),
     Row("expense", 100, <<"A", "b">>, <<"a", "B">>, D(2024, 1, 1)),
     Row("income", 100, <<"c">>, NULL, D(2024, 1, 1)),
     Row("expense", 100, <<"c">>, NULL, D(2024, 1, 31))}

\* rows of the dashboard runs
DashRows ==
    [type : {"income", "expense"}, amount : {50, 120},
     description : {<<"c">>},
     category : {<<"a">>, <<"b">>},
     date : {D(2024, 1, 1), D(2024, 1, 31), D(2024, 2, 1)}]

\* texts typed in the category filter and in the search box
CategoryTexts == {EmptyStr, <<"B">>}
SearchTexts == {EmptyStr, <<"A", "B">>}

\* dates the start and end pickers deliver: a local day and a time of day
StartPicks == {<<D(2024, 1, 2), 12 * 60>>}
EndPicks == {<<D(2024, 1, 30), 23 * 60>>}

\* the tables of at most n rows; the store assigns the ids
TablesUpTo(rows, n) ==
    UNION {{[i \in 1..k |->
                [id |-> i, type |-> f[i].type, amount |-> f[i].amount,
                 description |-> f[i].description, category |-> f[i].category,
                 date |-> f[i].date]] : f \in [1..k -> rows]} : k \in 0..n}

\* the tables of at most MaxRows rows
Tables(rows) == TablesUpTo(rows, MaxRows)

\* rows of the runs of the list screen's calls: two rows the default filters
\* display
CallRows ==
    {Row("expense", 50, <<"c">>, <<"a">>, D(2024, 1, 15)),
     Row("income", 120, <<"c">>, <<"b">>, D(2024, 1, 20))}

\* the tables of the runs of the list screen's calls: each of these rows once
CallTables == {t \in TablesUpTo(CallRows, 2) : \A i, j \in 1..Len(t) :
                  i < j => t[i].amount < t[j].amount}

\* rows of the highlights runs: expenses of equal and of different amounts,
\* incomes, two ordinary category names and one that is an array-index key,
\* all of one date (the store returns them in any order)
HighlightRows ==
    {Row("expense", 120, <<"c">>, <<"a">>, D(2024, 1, 31)),
     Row("expense", 120, <<"c">>, <<"b">>, D(2024, 1, 31)),
     Row("expense", 50, <<"c">>, <<"7">>, D(2024, 1, 31)),
     Row("income", 120, <<"c">>, <<"7">>, D(2024, 1, 31))}

-----------------------------------------------------------------------------
(* ExpensesScreen and IncomesScreen: the forms *)

Digits == {"0", "1", "2", "3", "4", "5", "6", "7", "8", "9"}

RECURSIVE SkipSpaces(_)
\* the text without its leading white space
SkipSpaces(s) ==
    IF s # <<>> /\ s[1] = " " THEN SkipSpaces(Tail(s)) ELSE s

RECURSIVE LeadingDigits(_)
\* the number of digits the text starts with
LeadingDigits(s) ==
    IF s # <<>> /\ s[1] \in Digits THEN 1 + LeadingDigits(Tail(s)) ELSE 0

RECURSIVE PowerOfTen(_)
PowerOfTen(n) == IF n = 0 THEN 1 ELSE 10 * PowerOfTen(n - 1)

\* the value NaN
NaN == [nan |-> TRUE, num |-> 0, den |-> 1]

\* parseFloat(text): the number num / den written by the longest prefix
\* that is a decimal literal (white space, a sign, digits, a point, digits),
\* NaN when that prefix has no digit.  Exponents and 'Infinity' are not
\* read; no input of the model has one.
ParseFloat(text) ==
    LET t        == SkipSpaces(text)
        signed   == t # <<>> /\ t[1] \in {"+", "-"}
        negative == t # <<>> /\ t[1] = "-"
        u        == IF signed THEN Tail(t) ELSE t
        n        == LeadingDigits(u)
        rest     == SubSeq(u, n + 1, Len(u))
        m        == IF rest # <<>> /\ rest[1] = "." THEN LeadingDigits(Tail(rest)) ELSE 0
        mantissa == IndexValue(SubSeq(u, 1, n) \o SubSeq(rest, 2, m + 1))
    IN  IF n + m = 0 THEN NaN
        ELSE [nan |-> FALSE, num |-> IF negative THEN 0 - mantissa ELSE mantissa,
              den |-> PowerOfTen(m)]

RECURSIVE ReplaceFirst(_, _, _)
\* text.replace(from, to) with a one-character pattern: the first occurrence
ReplaceFirst(text, from, to) ==
    IF text = <<>> THEN <<>>
    ELSE IF text[1] = from THEN <<to>> \o Tail(text)
    ELSE <<text[1]>> \o ReplaceFirst(Tail(text), from, to)

\* variant: isNaN(v) || v < 0
AmountRejectedBelowZero(v) == v.nan \/ v.num < 0

\* isNaN(v) || v <= 0
AmountRejected(v) == v.nan \/ v.num <= 0

\* the amount as stored, in cents (the inputs have at most two decimals)
Cents(v) == (v.num * 100) \div v.den

\* date.toISOString().split('T')[0]: the calendar day in UTC
ToISODate(instant) == CivilFromDays(instant \div MinutesPerDay)

\* no insert awaits its answer
NoInsert == [type |-> "none"]

\* the object handed to supabase.from('transactions').insert
InsertObject(type, v, description, category) ==
    [user_id |-> user, type |-> type, amount |-> Cents(v),
     description |-> description, category |-> category,
     date |-> ToISODate(LocalInstant(Mount[1], Mount[2]))]

\* handleSubmit of either form, with the fields as they are: the two early
\* returns, then setLoading(true) and the insert, which awaits its answer
submit(type, amount, description, category, v, missing) ==
    /\ ~formLoading
    /\ IF ~Truthy(amount) \/ ~Truthy(description) \/ ~Truthy(category)
       THEN /\ formAlert' = missing
            /\ UNCHANGED <<formLoading, pendingInsert>>
       ELSE IF AmountRejected(v)
       THEN /\ formAlert' = "Por favor, insira um valor válido maior que zero"
            /\ UNCHANGED <<formLoading, pendingInsert>>
       ELSE /\ Len(store) < MaxRows
            /\ formLoading' = TRUE
            /\ pendingInsert' = InsertObject(type, v, description, category)
            /\ UNCHANGED formAlert
    /\ UNCHANGED <<store, timezone>>
    /\ UNCHANGED <<listVars, dashVars, authVars, callVars, categoryVars>>

\* ExpensesScreen.handleSubmit up to its await
submitExpense(amount, description, category) ==
    submit("expense", amount, description, category,
           ParseFloat(ReplaceFirst(amount, ",", ".")),
           "Por favor, preencha valor, descrição e categoria")

\* IncomesScreen.handleSubmit up to its await, were its insert of type 'expense'
submitIncomeAsExpense(amount, description, source) ==
    submit("expense", amount, description, source, ParseFloat(amount),
           "Por favor, preencha valor, descrição e fonte")

\* IncomesScreen.handleSubmit up to its await
submitIncome(amount, description, source) ==
    submit("income", amount, description, source, ParseFloat(amount),
           "Por favor, preencha valor, descrição e fonte")

\* the row the store adds for the object of an accepted insert
InsertedRow(table, object) ==
    [id |-> Len(table) + 1, user_id |-> object.user_id, type |-> object.type,
     amount |-> object.amount, description |-> object.description,
     category |-> object.category, date |-> object.date]

\* the alert after the answer to the insert
AnswerAlert(type, response) ==
    IF response = "ok"
    THEN (IF type = "expense" THEN "Despesa cadastrada com sucesso!"
          ELSE "Receita cadastrada com sucesso!")
    ELSE (IF type = "expense" THEN "Não foi possível cadastrar a despesa"
          ELSE "Não foi possível cadastrar a receita")

\* the rest of handleSubmit, were setLoading(false) the last statement of
\* the try block
insertAnsweredStuck ==
    /\ pendingInsert # NoInsert
    /\ \E response \in InsertResponses :
          /\ store' = IF response = "ok"
                      THEN Append(store, InsertedRow(store, pendingInsert))
                      ELSE store
          /\ formAlert' = AnswerAlert(pendingInsert.type, response)
          /\ formLoading' = (response # "ok")
    /\ pendingInsert' = NoInsert
    /\ UNCHANGED timezone
    /\ UNCHANGED <<listVars, dashVars, authVars, callVars, categoryVars>>

\* the answer to the pending insert (accepted, an error, or the call threw)
\* and the rest of handleSubmit: the alert, goBack on success,
\* setLoading(false)
insertAnswered ==
    /\ pendingInsert # NoInsert
    /\ \E response \in InsertResponses :
          /\ store' = IF response = "ok"
                      THEN Append(store, InsertedRow(store, pendingInsert))
                      ELSE store
          /\ formAlert' = AnswerAlert(pendingInsert.type, response)
    /\ formLoading' = FALSE
    /\ pendingInsert' = NoInsert
    /\ UNCHANGED timezone
    /\ UNCHANGED <<listVars, dashVars, authVars, callVars, categoryVars>>

\* the text is a decimal literal from its first to its last character
IsNumeric(text) ==
    LET n     == LeadingDigits(text)
        rest  == SubSeq(text, n + 1, Len(text))
        point == rest # <<>> /\ rest[1] = "."
        m     == IF point THEN LeadingDigits(Tail(rest)) ELSE 0
    IN  /\ n + m > 0
        /\ Len(text) = n + (IF point THEN 1 + m ELSE 0)

\* handleAmountChange puts the typed text in the amount field: only digits,
\* commas and points, and empty or numeric once the first comma is a point
AmountFieldKeeps(text) ==
    /\ \A i \in 1..Len(text) : text[i] \in Digits \cup {",", "."}
    /\ LET formattedText == ReplaceFirst(text, ",", ".")
       IN  formattedText = EmptyStr \/ IsNumeric(formattedText)

\* texts typed in an amount field
AmountTexts ==
    {EmptyStr, <<"0">>, <<"-", "5">>, <<"a", "b", "c">>, <<"1", ",", "5", "0">>,
     <<"1", "2">>}

\* the amount field of the expense form holds what handleAmountChange kept;
\* the one of the income form holds whatever was typed
ExpenseAmountTexts == {t \in AmountTexts : AmountFieldKeeps(t)}
IncomeAmountTexts == AmountTexts

\* descriptions: none, white space only, a word
DescriptionTexts == {EmptyStr, <<" ", " ">>, <<"a", "b">>}

\* the category or source: none chosen, or a name
CategoryNames == {EmptyStr, <<"O", "u", "t", "r", "o", "s">>}

\* ExpensesScreen: the submit button, enabled while not loading
handleSubmitExpense ==
    \E amount \in ExpenseAmountTexts, description \in DescriptionTexts,
       category \in CategoryNames :
        submitExpense(amount, description, category)

\* IncomesScreen: the submit button, enabled while not loading
handleSubmitIncome ==
    \E amount \in IncomeAmountTexts, description \in DescriptionTexts,
       source \in CategoryNames :
        submitIncome(amount, description, source)

-----------------------------------------------------------------------------
(* CategoriesScreen.  Each handler is one step: the call, the store's      *)
(* answer and what the handler does with it, the loadCategories() of its   *)
(* success branch included.                                                *)

RECURSIVE TrimEnd(_)
\* the text without its trailing white space
TrimEnd(s) ==
    IF s # <<>> /\ s[Len(s)] = " " THEN TrimEnd(SubSeq(s, 1, Len(s) - 1)) ELSE s

\* the text without leading and trailing white space
Trimmed(s) == TrimEnd(SkipSpaces(s))

RECURSIVE Reverse(_)
\* the sequence from its last element to its first
Reverse(s) == IF s = <<>> THEN <<>> ELSE Append(Reverse(Tail(s)), Head(s))

\* .from('categories').select('*').eq('user_id', user.id).order('created_at',
\* { ascending: false }): the user's rows, the newest first
SelectCategories(table, userId) ==
    Reverse(SelectSeq(table, LAMBDA c : c.user_id = userId))

\* the ids a category can have in the runs: the table and the screen's list
\* hold at most MaxCategories each
CategoryIds == 1..(2 * MaxCategories + 1)

\* the id the store gives the next category: one it never gave before, which
\* is the least id that neither the table nor the screen holds
NextCategoryId(table) ==
    LET held == {table[i].id : i \in 1..Len(table)}
                   \cup {categoryList[i].id : i \in 1..Len(categoryList)}
    IN  CHOOSE n \in CategoryIds \ held : \A m \in CategoryIds \ held : n <= m

\* the categories the screen holds after a loadCategories(): what the store
\* returned, or what it held when the store answered with an error
Reloaded(table, ok) ==
    IF ok THEN SelectCategories(table, user) ELSE categoryList

\* what the steps of the categories screen leave alone
otherThanCategories ==
    <<store, timezone, listVars, balance, chartData, highlights, fetched, clock,
      accounts, session, authEvent, user, loading, seedings, lastRegister,
      formVars, callVars>>

\* loadCategories on mount: the fetch and its answer
loadCategories ==
    /\ categoryDialog = 0
    /\ \E ok \in BOOLEAN : categoryList' = Reloaded(categories, ok)
    /\ UNCHANGED <<categories, categoryDialog, lastAlert>>
    /\ UNCHANGED otherThanCategories

\* handleAddCategory with the typed name and the chosen type
handleAddCategory(newCategoryName, newCategoryType) ==
    /\ categoryDialog = 0
    /\ IF ~Truthy(Trimmed(newCategoryName))
       THEN /\ lastAlert' = "Por favor, digite um nome para a categoria"
            /\ UNCHANGED <<categories, categoryList>>
       ELSE /\ Len(categories) < MaxCategories
            /\ \E response \in InsertResponses, ok \in BOOLEAN :
                  IF response = "ok"
                  THEN LET table == Append(categories,
                                       [id |-> NextCategoryId(categories),
                                        user_id |-> user,
                                        name |-> Trimmed(newCategoryName),
                                        type |-> newCategoryType])
                       IN  /\ categories' = table
                           /\ categoryList' = Reloaded(table, ok)
                           /\ lastAlert' = "Categoria adicionada com sucesso!"
                  ELSE /\ lastAlert' = "Não foi possível adicionar a categoria"
                       /\ UNCHANGED <<categories, categoryList>>
    /\ UNCHANGED categoryDialog
    /\ UNCHANGED otherThanCategories

\* handleDeleteCategory(id), by the delete button of a listed category: the
\* confirmation dialog opens
handleDeleteCategory(categoryId) ==
    /\ categoryDialog = 0
    /\ \E i \in 1..Len(categoryList) : categoryList[i].id = categoryId
    /\ categoryDialog' = categoryId
    /\ UNCHANGED <<categories, categoryList, lastAlert>>
    /\ UNCHANGED otherThanCategories

\* 'Cancelar': the dialog closes
cancelDeleteCategory ==
    /\ categoryDialog # 0
    /\ categoryDialog' = 0
    /\ UNCHANGED <<categories, categoryList, lastAlert>>
    /\ UNCHANGED otherThanCategories

\* 'Excluir', were the transactions of the category deleted with it
confirmDeleteCategoryCascade ==
    /\ categoryDialog # 0
    /\ categoryDialog' = 0
    /\ \E deleted \in BOOLEAN, ok \in BOOLEAN :
          IF deleted
          THEN LET table == SelectSeq(categories, LAMBDA c : c.id # categoryDialog)
                   names == {categories[i].name :
                                i \in {k \in 1..Len(categories) :
                                          categories[k].id = categoryDialog}}
               IN  /\ categories' = table
                   /\ categoryList' = Reloaded(table, ok)
                   /\ store' = SelectSeq(store, LAMBDA t : t.category \notin names)
                   /\ UNCHANGED lastAlert
          ELSE /\ lastAlert' = "Não foi possível excluir a categoria"
               /\ UNCHANGED <<categories, categoryList, store>>
    /\ UNCHANGED <<timezone, listVars, balance, chartData, highlights, fetched,
                   clock, accounts, session, authEvent, user, loading, seedings,
                   lastRegister, formVars, callVars>>

\* 'Excluir': onPress, the delete by id and its answer
confirmDeleteCategory ==
    /\ categoryDialog # 0
    /\ categoryDialog' = 0
    /\ \E deleted \in BOOLEAN, ok \in BOOLEAN :
          IF deleted
          THEN LET table == SelectSeq(categories, LAMBDA c : c.id # categoryDialog)
               IN  /\ categories' = table
                   /\ categoryList' = Reloaded(table, ok)
                   /\ UNCHANGED lastAlert
          ELSE /\ lastAlert' = "Não foi possível excluir a categoria"
               /\ UNCHANGED <<categories, categoryList>>
    /\ UNCHANGED otherThanCategories

\* what is typed and chosen for a new category: no name, white space only,
\* the category of a transaction with white space around it
NewCategories ==
    {<<EmptyStr, "expense">>, <<<<" ">>, "income">>,
     <<<<" ", "a", " ">>, "expense">>}

-----------------------------------------------------------------------------
(* Specifications *)

\* the state of both screens once mounted, before any answer of the store
AuthMounted ==
    /\ clock = 0 /\ accounts = <<>> /\ session = 0 /\ authEvent = NoEvent
    /\ user = 0 /\ loading = TRUE
    /\ categories = <<>> /\ seedings = <<>>
    /\ lastRegister = NoRegister

FormMounted ==
    /\ formLoading = FALSE /\ formAlert = "" /\ pendingInsert = NoInsert

ScreensMounted ==
    /\ timezone \in Timezones
    /\ transactions = <<>>
    /\ filteredTransactions = <<>>
    /\ filterType = "all"
    /\ filterCategory = EmptyStr
    /\ LET now == LocalInstant(Mount[1], Mount[2])
       IN  /\ startDate = NewDateLocal(GetFullYear(now), GetMonth(now), 1)
           /\ endDate = now
    /\ searchText = EmptyStr
    /\ balance = 0
    /\ chartData = <<>>
    /\ highlights = [highestExpense |-> NoTransaction, mostUsedCategory |-> NULL]
    /\ fetched = <<>>
    /\ lastAlert = ""

\* no call of the list screen is awaited, no dialog is open
CallsMounted ==
    /\ inFlight = <<>> /\ confirmDialog = 0 /\ refreshing = FALSE
    /\ lastAnswer = NoAnswer /\ fetchFailed = FALSE

CategoriesMounted ==
    /\ categoryDialog = 0 /\ categoryList = <<>>

Mounted ==
    /\ ScreensMounted /\ AuthMounted /\ FormMounted
    /\ CallsMounted /\ CategoriesMounted

InitList == store \in Tables(ListRows) /\ Mounted

NextList ==
    \/ loadTransactions
    \/ \E ft \in {"all", "income", "expense"} : setFilterType(ft)
    \/ \E fc \in CategoryTexts : setFilterCategory(fc)
    \/ \E p \in StartPicks : setStartDate(LocalInstant(p[1], p[2]))
    \/ \E p \in EndPicks : setEndDate(LocalInstant(p[1], p[2]))
    \/ \E st \in SearchTexts : setSearchText(st)

SpecList == InitList /\ [][NextList]_vars

InitDashboard == store \in Tables(DashRows) /\ Mounted

NextDashboard == loadDashboardData

SpecDashboard == InitDashboard /\ [][NextDashboard]_vars

\* the dashboard over the stores of the highlights runs; calculateHighlights
\* reads neither dates nor the timezone
InitHighlights ==
    /\ store \in TablesUpTo(HighlightRows, MaxHighlightRows)
    /\ Mounted
    /\ timezone = 0

NextHighlights == loadDashboardData

SpecHighlights == InitHighlights /\ [][NextHighlights]_vars

\* the auth context and the register screen, from an auth service without
\* accounts
InitAuth ==
    /\ store = <<>>
    /\ Mounted
    /\ timezone = 0

NextAuth ==
    \/ handleRegister
    \/ signIn
    \/ signOut
    \/ tokenRefreshed
    \/ onAuthStateChange
    \/ onAuthStateChangeResumed
    \/ getSession
    \/ createCategoriesForExistingUser
    \/ tick

SpecAuth == InitAuth /\ [][NextAuth]_vars

\* the two forms of a signed-in user, from an empty table
InitForm ==
    /\ store = <<>>
    /\ ScreensMounted
    /\ FormMounted
    /\ CallsMounted
    /\ CategoriesMounted
    /\ clock = 0 /\ accounts = <<0>> /\ session = 1 /\ authEvent = NoEvent
    /\ user = 1 /\ loading = FALSE
    /\ categories = <<>> /\ seedings = <<>>
    /\ lastRegister = NoRegister

NextForm ==
    \/ handleSubmitExpense
    \/ handleSubmitIncome
    \/ insertAnswered

SpecForm == InitForm /\ [][NextForm]_vars

\* the list screen right after its mount effect issued the first fetch
InitCalls ==
    /\ store \in CallTables
    /\ ScreensMounted /\ AuthMounted /\ FormMounted /\ CategoriesMounted
    /\ timezone = 0
    /\ inFlight = <<Call("fetch", "mount", 0)>>
    /\ confirmDialog = 0 /\ refreshing = FALSE
    /\ lastAnswer = NoAnswer /\ fetchFailed = FALSE

NextCalls ==
    \/ onRefresh
    \/ \E id \in 1..MaxRows : handleDeleteTransaction(id)
    \/ cancelDelete
    \/ confirmDelete
    \/ \E i \in 1..Len(inFlight) : serve(i)
    \/ \E i \in 1..Len(inFlight) : fetchAnswered(i)
    \/ \E i \in 1..Len(inFlight) : deleteAnswered(i)

SpecCalls == InitCalls /\ [][NextCalls]_vars

\* the categories screen of a signed-in user, over a table of transactions
InitCategories ==
    /\ store \in CallTables
    /\ ScreensMounted /\ FormMounted /\ CallsMounted /\ CategoriesMounted
    /\ timezone = 0
    /\ clock = 0 /\ accounts = <<0>> /\ session = 1 /\ authEvent = NoEvent
    /\ user = 1 /\ loading = FALSE
    /\ categories = <<>> /\ seedings = <<>>
    /\ lastRegister = NoRegister

NextCategories ==
    \/ loadCategories
    \/ \E new \in NewCategories : handleAddCategory(new[1], new[2])
    \/ \E id \in CategoryIds : handleDeleteCategory(id)
    \/ cancelDeleteCategory
    \/ confirmDeleteCategory

SpecCategories == InitCategories /\ [][NextCategories]_vars

-----------------------------------------------------------------------------
(* Vocabulary of the properties *)

\* a successful loadDashboardData has run
DashboardLoaded == highlights.mostUsedCategory # NULL

RECURSIVE TotalOf(_)
\* the sum of the amounts of a set of rows
TotalOf(rows) ==
    IF rows = {} THEN 0
    ELSE LET r == CHOOSE x \in rows : TRUE
         IN  r.amount + TotalOf(rows \ {r})

\* the rows of the store of one kind
StoredOfKind(kind) == {r \in Range(store) : r.type = kind}

\* the calendar month written in a stored date
StoredMonth(r) == <<r.date.y, r.date.m>>

RECURSIVE FieldTotal(_, _)
\* the sum of one field over the buckets of the chart
FieldTotal(buckets, field) ==
    IF buckets = <<>> THEN 0
    ELSE buckets[1][field] + FieldTotal(Tail(buckets), field)

\* two characters that are the same letter, whatever their case
SameLetter(a, b) ==
    \/ a = b
    \/ {a, b} \in {{"A", "a"}, {"B", "b"}, {"C", "c"}}

\* sub occurs in s, ignoring case; an absent s is the empty string
ContainsIgnoringCase(s, sub) ==
    LET text == IF s = NULL THEN <<>> ELSE s
    IN  \E k \in 0..(Len(text) - Len(sub)) :
            \A j \in 1..Len(sub) : SameLetter(text[k + j], sub[j])

\* the local calendar day a bound shows, as a day number
BoundDay(t) == (t + timezone) \div MinutesPerDay

\* t is dated within [day of the start bound, day of the end bound]
WithinBoundDays(t) ==
    /\ BoundDay(startDate) <= DateKey(t.date)
    /\ DateKey(t.date) <= BoundDay(endDate)

\* the loaded transactions that pass the listed steps
Loaded == Range(transactions)
Shown == Range(filteredTransactions)

-----------------------------------------------------------------------------
(* C1..C3: the dashboard's figures (SpecDashboard) *)

\* C1: once the dashboard has loaded, its balance is the sum of the income
\* amounts of the store minus the sum of its expense amounts, and 0 for an
\* empty store.
C1_BalanceIsIncomeMinusExpenses ==
    DashboardLoaded =>
        /\ balance = TotalOf(StoredOfKind("income")) - TotalOf(StoredOfKind("expense"))
        /\ (store = <<>> => balance = 0)

C1_Witness ==
    /\ DashboardLoaded
    /\ StoredOfKind("income") # {}
    /\ StoredOfKind("expense") # {}
    /\ balance = 120 - 50

\* C2: the income fields of the monthly buckets add up to the income amounts
\* of the transactions, and the expenses fields to the expense amounts.
C2_MonthlySeriesKeepsTotals ==
    DashboardLoaded =>
        /\ FieldTotal(chartData, "income") = TotalOf(StoredOfKind("income"))
        /\ FieldTotal(chartData, "expenses") = TotalOf(StoredOfKind("expense"))

C2_Witness ==
    /\ DashboardLoaded
    /\ Len(store) = 2
    /\ Len(chartData) = 1
    /\ chartData[1].expenses = 50 + 120

\* C3: the chart has exactly one bucket per calendar month written in the
\* stored dates, each bucket holds the amounts of the transactions whose stored
\* date is in that month, and a kind without transactions in the month is 0.
C3_BucketsFollowStoredMonths ==
    DashboardLoaded =>
        /\ {chartData[i].month : i \in 1..Len(chartData)} =
              {StoredMonth(r) : r \in Range(store)}
        /\ \A i, j \in 1..Len(chartData) :
              chartData[i].month = chartData[j].month => i = j
        /\ \A i \in 1..Len(chartData) :
              LET inMonth(kind) ==
                      {r \in StoredOfKind(kind) : StoredMonth(r) = chartData[i].month}
              IN  /\ chartData[i].income = TotalOf(inMonth("income"))
                  /\ chartData[i].expenses = TotalOf(inMonth("expense"))

-----------------------------------------------------------------------------
(* C4..C10: the filters of the list screen (SpecList) *)

\* the steps of filterTransactions, numbered as in the code, under the
\* current criteria
Step(k, list) ==
    CASE k = 1 -> ByType(list, filterType)
      [] k = 2 -> ByCategory(list, filterCategory)
      [] k = 3 -> ByDate(list, startDate, endDate)
      [] k = 4 -> BySearch(list, searchText)

\* the steps applied in each of the 24 orders give the list `result`
EveryOrderGives(list, result) ==
    \A a \in 1..4 :
      LET la == Step(a, list) IN
      \A b \in (1..4) \ {a} :
        LET lb == Step(b, la) IN
        \A c \in (1..4) \ {a, b} :
          LET lc == Step(c, lb) IN
          \A d \in (1..4) \ {a, b, c} : Step(d, lc) = result

\* which predicates are active, and whether t satisfies them
KindActive == filterType # "all"
CategoryActive == filterCategory # EmptyStr
SearchActive == searchText # EmptyStr

SatisfiesKind(t) == KindActive => t.type = filterType
SatisfiesCategory(t) ==
    CategoryActive => ContainsIgnoringCase(t.category, filterCategory)
SatisfiesDate(t) == DatePredicate(t, startDate, endDate)
SatisfiesSearch(t) ==
    SearchActive => \/ ContainsIgnoringCase(t.description, searchText)
                    \/ ContainsIgnoringCase(t.category, searchText)

\* C4: every shown transaction is a loaded one; and with kind 'all', no
\* category text, no search text and bounds whose days cover every stored
\* date, the shown list is the loaded list.
C4_SubsetAndIdentity ==
    /\ Shown \subseteq Loaded
    /\ (/\ ~KindActive /\ ~CategoryActive /\ ~SearchActive
        /\ \A t \in Loaded : WithinBoundDays(t))
       => filteredTransactions = transactions

\* C5: filtering the shown list again with the same criteria gives the shown
\* list.
C5_Idempotent ==
    filterTransactions(filteredTransactions, filterType, filterCategory,
                       startDate, endDate, searchText) = filteredTransactions

C5_Witness ==
    /\ Len(transactions) = 2
    /\ Len(filteredTransactions) = 1
    /\ KindActive
    /\ C5_Idempotent

\* C6: the shown list is the loaded list with some elements left out: same
\* relative order, no element more often than loaded.
C6_OrderPreserved ==
    \E f \in [1..Len(filteredTransactions) -> 1..Len(transactions)] :
        /\ \A i, j \in 1..Len(filteredTransactions) : i < j => f[i] < f[j]
        /\ \A i \in 1..Len(filteredTransactions) :
              filteredTransactions[i] = transactions[f[i]]

C6_Witness ==
    /\ Len(filteredTransactions) = 2
    /\ SearchActive
    /\ KindActive
    /\ filteredTransactions[1].id = 2
    /\ filteredTransactions = transactions

\* C7: a loaded transaction is shown exactly when it satisfies every active
\* predicate, and the four steps give the shown list in whatever order they
\* are applied.
C7_ConjunctionAnyOrder ==
    /\ filteredTransactions =
          SelectSeq(transactions,
                    LAMBDA t : /\ SatisfiesKind(t) /\ SatisfiesCategory(t)
                               /\ SatisfiesDate(t) /\ SatisfiesSearch(t))
    /\ EveryOrderGives(transactions, filteredTransactions)

C7_Witness ==
    /\ KindActive /\ CategoryActive
    /\ Len(filteredTransactions) = 1
    /\ \E t \in Loaded \ Shown :
          /\ ~SatisfiesKind(t)
          /\ SatisfiesCategory(t) /\ SatisfiesDate(t) /\ SatisfiesSearch(t)

\* C8: a loaded transaction passes the date predicate exactly when its stored
\* date lies within [day of the start bound, day of the end bound], whatever
\* the time of day of the bounds and the timezone.
C8_DateFilterByCalendarDay ==
    \A t \in Loaded :
        DatePredicate(t, startDate, endDate) <=> WithinBoundDays(t)

\* C9: with a search text, the transactions that pass the first three steps
\* are shown exactly when the text occurs, ignoring case, in the description
\* or in the category; without one they are all shown.
C9_SearchDescriptionOrCategory ==
    LET before == ByDate(ByCategory(ByType(transactions, filterType),
                                    filterCategory), startDate, endDate)
    IN  /\ filteredTransactions =
              SelectSeq(before,
                        LAMBDA t : \/ ContainsIgnoringCase(t.description, searchText)
                                   \/ ContainsIgnoringCase(t.category, searchText))
        /\ ~SearchActive => filteredTransactions = before

C9_Witness ==
    /\ SearchActive
    /\ \E t \in Shown :
          /\ ~ContainsIgnoringCase(t.description, searchText)
          /\ ContainsIgnoringCase(t.category, searchText)
    /\ \E t \in Loaded \ Shown :
          SatisfiesKind(t) /\ SatisfiesCategory(t) /\ SatisfiesDate(t)

\* C10: with a category text, the transactions that pass the kind step go on
\* to the later steps exactly when the text occurs, ignoring case, in their
\* category; a transaction without category is never shown then.
C10_CategorySubstring ==
    LET before == ByType(transactions, filterType)
        passed == SelectSeq(before,
                            LAMBDA t : ContainsIgnoringCase(t.category, filterCategory))
    IN  /\ filteredTransactions =
              BySearch(ByDate(passed, startDate, endDate), searchText)
        /\ CategoryActive =>
              \A t \in Shown : t.category # NULL /\ t.category # EmptyStr

C10_Witness ==
    /\ CategoryActive
    /\ Len(filteredTransactions) = 1
    /\ filteredTransactions[1].category # ToLowerCase(filteredTransactions[1].category)
    /\ \E t \in Loaded \ Shown :
          /\ t.category = NULL
          /\ SatisfiesKind(t) /\ SatisfiesDate(t) /\ SatisfiesSearch(t)

-----------------------------------------------------------------------------
(* Highlights: C11 - C13 *)

\* positions of the fetched rows that are expenses
ExpensePositions == {i \in 1..Len(fetched) : fetched[i].type = "expense"}

\* the category names among the fetched rows
FetchedCategories == {fetched[i].category : i \in 1..Len(fetched)}

\* how many fetched rows, of either kind, carry the category
Occurrences(c) == Cardinality({i \in 1..Len(fetched) : fetched[i].category = c})

\* position of the first fetched row with the category
FirstOccurrence(c) ==
    CHOOSE i \in 1..Len(fetched) :
        /\ fetched[i].category = c
        /\ \A j \in 1..(i - 1) : fetched[j].category # c

\* the categories no other category occurs more often than
TopCategories ==
    {c \in FetchedCategories : \A d \in FetchedCategories : Occurrences(c) >= Occurrences(d)}

\* c comes after d in the order of the keys of the count map: array-index
\* names by their number, before every other name; other names by first
\* occurrence
KeyAfter(c, d) ==
    IF IsArrayIndex(c) /\ IsArrayIndex(d) THEN IndexValue(c) > IndexValue(d)
    ELSE IF IsArrayIndex(c) THEN FALSE
    ELSE IF IsArrayIndex(d) THEN TRUE
    ELSE FirstOccurrence(c) > FirstOccurrence(d)

\* C11: after a load, the highest expense is a fetched expense whose amount
\* no fetched expense exceeds and that comes before every other expense of
\* that amount in the fetched order; it is absent when no expense was fetched
\* (an empty result included).
C11_HighestExpenseFirstMax ==
    DashboardLoaded =>
        IF ExpensePositions = {}
        THEN highlights.highestExpense = NoTransaction
        ELSE \E i \in ExpensePositions :
                /\ highlights.highestExpense = fetched[i]
                /\ \A j \in ExpensePositions :
                      /\ fetched[j].amount <= fetched[i].amount
                      /\ (j < i => fetched[j].amount < fetched[i].amount)

C11_Witness ==
    /\ DashboardLoaded
    /\ \E i, j \in ExpensePositions :
          /\ 1 < i /\ i < j
          /\ fetched[i].amount = fetched[j].amount
          /\ highlights.highestExpense = fetched[i]
          /\ fetched[1].type = "expense"

-----------------------------------------------------------------------------
(* Default categories: C14 - C18 (SpecAuth) *)

\* the createDefaultCategories calls so far with the given property
SeedingsWhere(P(_)) == {i \in 1..Len(seedings) : P(seedings[i])}

\* the names of the rows of a kind, and how many rows of the kind there are
NamesOfType(rows, type) == {rows[i].name : i \in {j \in 1..Len(rows) : rows[j].type = type}}
CountOfType(rows, type) == Cardinality({i \in 1..Len(rows) : rows[i].type = type})

\* the rows of the categories table that belong to the user
CategoriesOf(userId) == {i \in 1..Len(categories) : categories[i].user_id = userId}

\* C14: every createDefaultCategories(userId) the store accepted issued one
\* insert, of 13 rows, each of user_id userId: 8 expense categories and 5
\* income categories of the listed names.
C14_OneInsertOfThirteenRows ==
    \A i \in SeedingsWhere(LAMBDA s : s.response = "ok") :
        LET s == seedings[i]
        IN  /\ Len(s.inserts) = 1
            /\ Len(s.inserts[1]) = 13
            /\ \A k \in 1..Len(s.inserts[1]) : s.inserts[1][k].user_id = s.userId
            /\ CountOfType(s.inserts[1], "expense") = 8
            /\ NamesOfType(s.inserts[1], "expense") =
                  {"Alimentação", "Transporte", "Moradia", "Saúde", "Educação",
                   "Lazer", "Compras", "Outros"}
            /\ CountOfType(s.inserts[1], "income") = 5
            /\ NamesOfType(s.inserts[1], "income") =
                  {"Salário", "Freelance", "Investimentos", "Presentes", "Outros"}

C14_Witness ==
    /\ Len(seedings) = 1
    /\ seedings[1].response = "ok"
    /\ Len(categories) = 13

\* C15: the categories table holds 13 rows for every accepted call, in all
\* and for each user: n accepted calls for a user leave 13 * n categories of
\* that user.
C15_ThirteenPerAcceptedCall ==
    /\ Len(categories) = 13 * Cardinality(SeedingsWhere(LAMBDA s : s.response = "ok"))
    /\ \A u \in 1..Len(accounts) :
          Cardinality(CategoriesOf(u)) =
              13 * Cardinality(SeedingsWhere(LAMBDA s : s.response = "ok" /\ s.userId = u))

C15_Witness ==
    \E u \in 1..Len(accounts) :
        /\ Cardinality(SeedingsWhere(LAMBDA s : s.response = "ok" /\ s.userId = u)) = 2
        /\ Cardinality(CategoriesOf(u)) = 26

\* C16 as stated: over signUp, signIn, signOut and the auth state changes,
\* createDefaultCategories is called at most once for an account.
C16_SeededAtMostOnce ==
    \A u \in 1..Len(accounts) :
        Cardinality(SeedingsWhere(LAMBDA s : /\ s.userId = u
                                             /\ s.by \in {"signUp", "onAuthStateChange"})) <= 1

\* C17 as stated: a createDefaultCategories call whose insert failed, by an
\* error answer or by throwing, reported the failure to its caller, by
\* throwing or by what it returned, and logged it.
C17_FailureReportedAndLogged ==
    \A i \in SeedingsWhere(LAMBDA s : s.response # "ok") :
        /\ seedings[i].threw \/ seedings[i].returned # "undefined"
        /\ seedings[i].console = "error"

\* C18: when the auth service created the account, signUp returned the user
\* without an error, whatever became of the insert of the categories, and
\* the register screen announced the success and went to the login screen.
C18_SeedingFailureNotFatal ==
    (lastRegister.called /\ lastRegister.auth = "created") =>
        /\ lastRegister.returned.error = "null"
        /\ lastRegister.returned.data = "object"
        /\ lastRegister.returned.user \in 1..Len(accounts)
        /\ lastRegister.alert = "Conta criada com sucesso! Faça login."
        /\ lastRegister.navigated = "Login"

C18_Witness ==
    /\ lastRegister.called
    /\ lastRegister.auth = "created"
    /\ lastRegister.response = "throw"
    /\ Len(categories) = 0
    /\ Len(accounts) = 1

-----------------------------------------------------------------------------
(* The forms: C19, C20 (SpecForm) *)

\* the number a form reads in its amount field
AmountRead(type, amount) ==
    IF type = "expense" THEN ParseFloat(ReplaceFirst(amount, ",", "."))
    ELSE ParseFloat(amount)

\* a field is missing, or the amount does not parse to a number above zero
FieldsInvalid(type, amount, description, category) ==
    \/ amount = EmptyStr \/ description = EmptyStr \/ category = EmptyStr
    \/ AmountRead(type, amount).nan
    \/ AmountRead(type, amount).num <= 0

\* the transactions handed to the store so far: inserted, or awaiting the answer
Submitted ==
    Range(store) \cup (IF pendingInsert = NoInsert THEN {} ELSE {pendingInsert})

\* C19: a submit of either form with a field missing or an amount that does
\* not parse to a number above zero issues no insert, leaves the table as it
\* is and does not set the loading flag; and after every step every
\* transaction handed to the store has an amount above zero.
C19_InvalidSubmitIssuesNothing ==
    [][/\ \/ UNCHANGED <<store, formLoading, pendingInsert>>
          \/ \A amount \in AmountTexts, description \in DescriptionTexts,
                category \in CategoryNames :
                /\ FieldsInvalid("expense", amount, description, category)
                      => ~submitExpense(amount, description, category)
                /\ FieldsInvalid("income", amount, description, category)
                      => ~submitIncome(amount, description, category)
       /\ \A t \in Submitted' : t.amount > 0]_vars

C19_Witness ==
    /\ formAlert = "Por favor, insira um valor válido maior que zero"
    /\ Len(store) = 1
    /\ store[1].type = "income"
    /\ store[1].amount = 100
    /\ ~formLoading
    /\ pendingInsert = NoInsert

\* C20 as stated: every transaction handed to the store has a description
\* that is not empty once its leading and trailing white space is removed.
C20_DescriptionNotBlank ==
    \A t \in Submitted : Trimmed(t.description) # EmptyStr

-----------------------------------------------------------------------------
(* The listener of the auth state changes: C29 (SpecAuth) *)

\* the listener was called with the event and is not at its await
Delivered ==
    /\ authEvent # NoEvent
    /\ ~authEvent.awaiting
    /\ authEvent' # authEvent

\* C29: called with SIGNED_IN for a user whose account is less than 5 minutes
\* old, the listener calls createDefaultCategories and sets neither user nor
\* loading before that call has finished; called with anything else (another
\* event, no user, an account of 5 minutes or more) it inserts no category;
\* and in both cases its last step sets user to the user of the event (none
\* if it has no session) and loading to false.  No other step records a
\* seeding by the listener.
C29_ListenerSeedsNewSignInsOnly ==
    [][/\ Delivered
          => IF /\ authEvent.event = "SIGNED_IN"
                /\ authEvent.user # 0
                /\ clock - accounts[authEvent.user] < NewAccountMinutes
             THEN /\ authEvent'.awaiting
                  /\ UNCHANGED <<user, loading, categories, seedings>>
             ELSE /\ UNCHANGED <<categories, seedings>>
                  /\ user' = authEvent.user
                  /\ ~loading'
                  /\ authEvent' = NoEvent
       /\ (authEvent.awaiting /\ authEvent' # authEvent)
          => /\ Len(seedings') = Len(seedings) + 1
             /\ seedings'[Len(seedings')].by = "onAuthStateChange"
             /\ seedings'[Len(seedings')].userId = authEvent.user
             /\ user' = authEvent.user
             /\ ~loading'
             /\ authEvent' = NoEvent
       /\ (/\ Len(seedings') > Len(seedings)
           /\ seedings'[Len(seedings')].by = "onAuthStateChange")
          => authEvent.awaiting]_vars

C29_Witness ==
    /\ seedings # <<>>
    /\ seedings[Len(seedings)].by = "onAuthStateChange"
    /\ user = seedings[Len(seedings)].userId
    /\ user # 0
    /\ ~loading
    /\ authEvent = NoEvent
    /\ clock - accounts[user] < NewAccountMinutes

-----------------------------------------------------------------------------
(* The inserts of the forms: C21, C26 (SpecForm) *)

\* C21: the insert issued by the expense form has type 'expense' and the one
\* issued by the income form type 'income', both with the user_id of the
\* user signed in at that step; the table changes only by gaining one row
\* with the type, user_id and other fields of the pending insert, and the
\* rows it holds stay as they are.
C21_KindAndOwnerFixedAtInsert ==
    [][/\ \/ UNCHANGED pendingInsert
          \/ pendingInsert' = NoInsert
          \/ \A amount \in AmountTexts, description \in DescriptionTexts,
                category \in CategoryNames :
                /\ submitExpense(amount, description, category)
                      => pendingInsert'.type = "expense" /\ pendingInsert'.user_id = user
                /\ submitIncome(amount, description, category)
                      => pendingInsert'.type = "income" /\ pendingInsert'.user_id = user
       /\ \/ UNCHANGED store
          \/ /\ pendingInsert # NoInsert
             /\ Len(store') = Len(store) + 1
             /\ SubSeq(store', 1, Len(store)) = store
             /\ \E id \in 1..MaxRows :
                   store'[Len(store')] = [id |-> id] @@ pendingInsert]_vars

C21_Witness ==
    /\ Len(store) = 2
    /\ store[1].type = "expense" /\ store[1].user_id = user
    /\ store[2].type = "income" /\ store[2].user_id = user
    /\ pendingInsert = NoInsert

\* C26: the loading flag is set exactly while an insert awaits its answer;
\* while it does, the only step is the one that handles the answer, so no
\* second insert is issued; and that step, whatever the answer, leaves the
\* flag false.
C26_OneInsertAtATime ==
    [][/\ formLoading' <=> pendingInsert' # NoInsert
       /\ pendingInsert # NoInsert
             => /\ formLoading
                /\ pendingInsert' = NoInsert
                /\ ~formLoading']_vars

C26_Witness ==
    /\ formAlert = "Não foi possível cadastrar a receita"
    /\ ~formLoading
    /\ pendingInsert = NoInsert
    /\ Len(store) = 1
    /\ store[1].type = "expense"

-----------------------------------------------------------------------------
(* Deleting a category: C24 (SpecCategories) *)

\* the figures of the dashboard and the unfiltered list, over every order in
\* which the store may return the rows
FiguresOf(rows) ==
    {<<ComputeBalance(txs), processMonthlyData(txs), calculateHighlights(txs),
       filterTransactions(txs, filterType, filterCategory, startDate, endDate,
                          searchText)>> : txs \in FetchResults(rows)}

\* C24: a confirmed delete of a category leaves the transactions table as it
\* is, so every transaction naming the category is still there with that
\* category, and the dashboard's figures and the filter's result over the
\* table are what they were.
C24_CategoryDeleteKeepsTransactions ==
    [][(categoryDialog # 0 /\ categoryDialog' = 0 /\ confirmDeleteCategory)
          => /\ store' = store
             /\ \A i \in 1..Len(store) :
                   /\ i <= Len(store')
                   /\ store'[i].category = store[i].category
             /\ FiguresOf(store') = FiguresOf(store)]_vars

C24_Witness ==
    /\ Len(store) = 2
    /\ store[1].category = <<"a">>
    /\ lastAlert = "Categoria adicionada com sucesso!"
    /\ categories = <<>>
    /\ categoryList = <<>>
    /\ categoryDialog = 0

-----------------------------------------------------------------------------
(* The displayed list after every change: C27 (SpecList) *)

\* C27: after every load and every change of a filter criterion, the
\* displayed list is filterTransactions of the loaded transactions and the
\* current criteria.
C27_DisplayedIsFilterOfCurrent ==
    filteredTransactions =
        filterTransactions(transactions, filterType, filterCategory, startDate,
                           endDate, searchText)

C27_Witness ==
    /\ SearchActive /\ CategoryActive
    /\ Len(transactions) = 2
    /\ Len(filteredTransactions) = 1
    /\ filteredTransactions[1] = transactions[2]

-----------------------------------------------------------------------------
(* The calls of the list screen: C22, C23, C25, C28, C30 (SpecCalls) *)

\* the calls of a kind among the calls
CallsOf(kind, calls) == {i \in 1..Len(calls) : calls[i].kind = kind}

\* the ids of the rows
IdsOf(rows) == {rows[i].id : i \in 1..Len(rows)}

\* C22 as stated: a store call of the list screen answered with an error was
\* followed by an alert to the user.
C22_ErrorsSurfaced == ~lastAnswer.ok => lastAnswer.alert # ""

\* C23: a delete call is issued only by the step that closes an open
\* confirmation dialog, one call, for the id of the dialog; the press of a
\* delete button and 'Cancelar' issue no call and leave the table and both
\* lists as they are; and the table changes only by the store serving a
\* delete call, losing the rows of its id.
C23_DeleteOnlyAfterConfirm ==
    [][/\ Cardinality(CallsOf("delete", inFlight')) > Cardinality(CallsOf("delete", inFlight))
          => /\ confirmDialog # 0
             /\ confirmDialog' = 0
             /\ Len(inFlight') = Len(inFlight) + 1
             /\ SubSeq(inFlight', 1, Len(inFlight)) = inFlight
             /\ inFlight'[Len(inFlight')].kind = "delete"
             /\ inFlight'[Len(inFlight')].id = confirmDialog
       /\ (cancelDelete \/ \E id \in 1..MaxRows : handleDeleteTransaction(id))
          => UNCHANGED <<inFlight, store, transactions, filteredTransactions>>
       /\ store' # store
          => \E i \in CallsOf("delete", inFlight) :
                /\ ~inFlight[i].served
                /\ inFlight'[i].served
                /\ store' = DeleteById(store, inFlight[i].id)]_vars

C23_Witness ==
    /\ confirmDialog = 0
    /\ \E i \in CallsOf("delete", inFlight) :
          /\ inFlight[i].served
          /\ inFlight[i].id \notin IdsOf(store)
          /\ inFlight[i].id \in IdsOf(filteredTransactions)

C30_SettledListIsStore ==
    (inFlight = <<>> /\ ~fetchFailed) => transactions \in FetchResults(store)

====
